---- MODULE Spec2Model ----
(***************************************************************************)
(* A model of ggame (src/ggame.py): the App event subscription tables and  *)
(* event routing, and the Sprite transform / extents cache.                *)
(***************************************************************************)
EXTENDS Integers, Sequences, FiniteSets, TLC

(***************************************************************************)
(* Bounds and input sets                                                   *)
(***************************************************************************)

\* Longest callback list an event dispatch may leave in the table (the
\* stored key list grows at every key event, see keyEvent).
MaxList == 3

\* User callbacks handed to listen*Event.  Whether a callback sets
\* event.consumed = True (_Event.consumed, line 1141) is its own decision,
\* taken per event: each dispatch draws the set of callbacks that would
\* consume the event.
Callbacks == {"f", "g"}

\* KeyEvent.keydown / MouseEvent.click: one phase per channel.
KeyTypes == {"keydown"}

MouseTypes == {"click"}

\* Key names handed to listenKeyEvent / unlistenKeyEvent.
KeyNames == {"a", "*"}

\* KeyEvent.keys restricted to two of its entries; 7 is a key code with no
\* entry in the table (as are 0..7, 10..12, ... in the source).
keys == (65 :> "a") @@ (66 :> "b")

KeyCodes == {65, 7}

\* KeyEvent.keys.get(hwevent.keyCode, 0): the default, 0, is no key name.
NoKeyName == "0"

(***************************************************************************)
(* State                                                                   *)
(***************************************************************************)

VARIABLES
    eventdict,   \* App._eventdict: <<type, key>> or <<type>> -> callback list
    last,        \* the last operation: its arguments, the table before it,
                 \* the callbacks it invoked, whether it raised
    subs,        \* {<<dictkey, callback>>}: listened, and not unlistened
                 \* since, after the last call of App._destroy
    cancelled    \* callbacks listened only under <<type, "*">> and then
                 \* successfully unlistened, and not listened again since

VARIABLES
    sprites,     \* the Sprite objects: id -> fields (asset, display handle,
                 \* cached extents, _extentsdirty)
    slast        \* the last Sprite operation, and the sprite before it

VARIABLES
    spritelist,    \* App.spritelist: the ids of the registered sprites
    spritesdict,   \* App._spritesdict: class -> ids of its sprites
    win,           \* App._win is a GFX_Window (TRUE) or None (FALSE)
    spritesadded,  \* App._spritesadded
    platform,      \* the branch of sysdeps the program runs on
    spriteclass,   \* type(obj) of every Sprite object
    destroyed,     \* the sprites whose display handle was destroyed
    stale,         \* {<<dictkey, callback>>}: the subscriptions there
                   \* were when App._destroy was last called
    rlast          \* the last App / registry operation, the registry
                   \* before it, what it returned, whether it raised,
                   \* whether it came right after a call of App._destroy

VARIABLES
    userfunc,    \* App.userfunc, as App.run left it
    frames,      \* the frames requested of the window's clock and not yet
                 \* delivered
    tick,        \* the last animation tick: how often it called step and
                 \* userfunc, how many frames it requested
    windows,     \* the GFX_Window objects created and not destroyed
    scene,       \* the display objects (by sprite) added to the window and
                 \* not removed, in the order of the add calls
    bindings     \* the event types bound on the window, one for every
                 \* bind call, in the order of the calls

VARIABLES
    frame,       \* a Frame object: x, y, w, h
    flast        \* the last Frame operation, its argument, and the frame
                 \* before it

evars == <<eventdict, last, subs, cancelled>>

svars == <<sprites, slast>>

rvars == <<spritelist, spritesdict, win, spritesadded, platform, spriteclass,
           destroyed, stale, rlast>>

avars == <<userfunc, frames, tick, windows, bindings>>

vars == <<eventdict, last, subs, cancelled, sprites, slast, spritelist,
          spritesdict, win, spritesadded, platform, spriteclass, destroyed,
          stale, rlast, userfunc, frames, tick, windows, bindings, frame,
          flast, scene>>

fvars == <<frame, flast>>

KeyKey(t, n) == <<t, n>>

\* A pointer type filed under the key of the keyboard wildcard list.
MouseKeyAsWild(t) == <<"keydown", "*">>

MouseKey(t) == <<t>>

WildKey(t) == <<t, "*">>

Get(d, k) == IF k \in DOMAIN d THEN d[k] ELSE <<>>

Put(d, k, v) == [x \in DOMAIN d \cup {k} |-> IF x = k THEN v ELSE d[x]]

Elems(s) == {s[i] : i \in 1..Len(s)}

RECURSIVE Reverse(_)
Reverse(s) == IF s = <<>> THEN <<>> ELSE Append(Reverse(Tail(s)), Head(s))

\* list.remove(x): drops the first occurrence of x (x is in s).
RECURSIVE Remove(_, _)
Remove(s, x) ==
    IF Head(s) = x THEN Tail(s) ELSE <<Head(s)>> \o Remove(Tail(s), x)

NoOp ==
    [op |-> "init", key |-> <<>>, cb |-> "", code |-> 0, pre |-> <<>>,
     evtlist |-> <<>>, cons |-> {}, invoked |-> <<>>, consumed |-> FALSE,
     raised |-> FALSE]

(***************************************************************************)
(* Event routing (App._routeEvent, App._keyEvent, App._mouseEvent)         *)
(***************************************************************************)

\* The body of callback c run on an event whose flag is `consumed`, cons
\* being the callbacks that consume this event: the new event.consumed.
Call(c, consumed, cons) == consumed \/ c \in cons

\* Mutant: the loop without its `if not event.consumed` test.
RECURSIVE RouteLoopNoTest(_, _, _, _, _)
RouteLoopNoTest(evtlist, i, consumed, invoked, cons) ==
    IF i < 1
    THEN [consumed |-> consumed, invoked |-> invoked]
    ELSE RouteLoopNoTest(evtlist, i - 1, Call(evtlist[i], consumed, cons),
                         Append(invoked, evtlist[i]), cons)

\* for callback in reversed(evtlist): if not event.consumed: callback(event)
\* i is the position of the reverse iterator (Len(evtlist) down to 1).
RECURSIVE RouteLoop(_, _, _, _, _)
RouteLoop(evtlist, i, consumed, invoked, cons) ==
    IF i < 1
    THEN [consumed |-> consumed, invoked |-> invoked]
    ELSE IF ~consumed
         THEN RouteLoop(evtlist, i - 1, Call(evtlist[i], consumed, cons),
                        Append(invoked, evtlist[i]), cons)
         ELSE RouteLoop(evtlist, i - 1, consumed, invoked, cons)

\* Mutant: the list walked in registration order (no reversed()).
routeEventForward(evtlist, cons) ==
    RouteLoop(Reverse(evtlist), Len(evtlist), FALSE, <<>>, cons)

\* _Event.__init__ sets consumed = False; the reverse iterator starts at the
\* last element.
routeEvent(evtlist, cons) == RouteLoop(evtlist, Len(evtlist), FALSE, <<>>, cons)

\* KeyEvent.keys.get(hwevent.keyCode, 0)
KeyNameOrDefault(code) == IF code \in DOMAIN keys THEN keys[code] ELSE NoKeyName

\* Mutant: the wildcard list placed before the list of the key.
keyEvtlistWildFirst(d, t, code) ==
    Get(d, WildKey(t)) \o Get(d, KeyKey(t, KeyNameOrDefault(code)))

\* The list App._keyEvent routes: the stored list of the key (the list object
\* itself when the table has one, else a new empty list) extended in place
\* by the wildcard list.
keyEvtlist(d, t, code) ==
    Get(d, KeyKey(t, KeyNameOrDefault(code))) \o Get(d, WildKey(t))

\* The table after evtlist.extend(...): the extend acts on the list object
\* the table holds, when it holds one.
keyEventdict(d, t, code) ==
    LET k == KeyKey(t, KeyNameOrDefault(code))
    IN  IF k \in DOMAIN d THEN [d EXCEPT ![k] = keyEvtlist(d, t, code)] ELSE d

\* KeyEvent.__init__: self.keys[hwevent.keyCode] raises KeyError for a code
\* that is not in the table; the event is only built for a non-empty list.
keyEventRaises(d, t, code) ==
    Len(keyEvtlist(d, t, code)) > 0 /\ code \notin DOMAIN keys

keyEvent(t, code, cons) ==
    LET evtlist == keyEvtlist(eventdict, t, code)
        raises == keyEventRaises(eventdict, t, code)
        r == IF raises \/ Len(evtlist) = 0
             THEN [consumed |-> FALSE, invoked |-> <<>>]
             ELSE routeEvent(evtlist, cons)
    IN  /\ Len(evtlist) <= MaxList
        /\ cons \subseteq Elems(evtlist)
        /\ eventdict' = keyEventdict(eventdict, t, code)
        /\ last' = [op |-> "keyEvent", key |-> KeyKey(t, KeyNameOrDefault(code)),
                    cb |-> "", code |-> code, pre |-> eventdict,
                    evtlist |-> evtlist, cons |-> cons, invoked |-> r.invoked,
                    consumed |-> r.consumed, raised |-> raises]
        /\ UNCHANGED <<scene, fvars, avars, subs, cancelled, svars, rvars>>

mouseEvent(t, cons) ==
    LET evtlist == Get(eventdict, MouseKey(t))
        r == IF Len(evtlist) = 0
             THEN [consumed |-> FALSE, invoked |-> <<>>]
             ELSE routeEvent(evtlist, cons)
    IN  /\ cons \subseteq Elems(evtlist)
        /\ last' = [op |-> "mouseEvent", key |-> MouseKey(t), cb |-> "",
                    code |-> 0, pre |-> eventdict, evtlist |-> evtlist,
                    cons |-> cons, invoked |-> r.invoked, consumed |-> r.consumed,
                    raised |-> FALSE]
        /\ UNCHANGED <<scene, fvars, avars, eventdict, subs, cancelled, svars, rvars>>

(***************************************************************************)
(* Subscription (App.listen*Event, App.unlisten*Event)                     *)
(***************************************************************************)

\* Mutant: append without the `if not callback in evtlist` test.
listenListAlways(evtlist, c) == Append(evtlist, c)

\* evtlist = get(key, []); if not callback in evtlist: append; store.
listenList(evtlist, c) ==
    IF c \in Elems(evtlist) THEN evtlist ELSE Append(evtlist, c)

listen(opname, k, c) ==
    /\ Len(Get(eventdict, k)) < MaxList
    /\ eventdict' = Put(eventdict, k, listenList(Get(eventdict, k), c))
    /\ last' = [NoOp EXCEPT !.op = opname, !.key = k, !.cb = c,
                            !.pre = eventdict]
    /\ subs' = subs \cup {<<k, c>>}
    /\ cancelled' = cancelled \ {c}
    /\ UNCHANGED <<scene, fvars, avars, svars, rvars>>

listenKeyEvent(t, n, c) == listen("listenKeyEvent", KeyKey(t, n), c)

listenMouseEvent(t, c) == listen("listenMouseEvent", MouseKey(t), c)

\* App._eventdict[key].remove(callback): KeyError when the table has no list
\* for the key, ValueError when the list does not hold the callback.
unlistenRaises(d, k, c) == k \notin DOMAIN d \/ c \notin Elems(d[k])

\* Mutant: every occurrence of the callback removed, not the first only.
unlistenDictAll(d, k, c) ==
    IF unlistenRaises(d, k, c) THEN d
    ELSE [d EXCEPT ![k] = SelectSeq(d[k], LAMBDA x : x # c)]

unlistenDict(d, k, c) ==
    IF unlistenRaises(d, k, c) THEN d ELSE [d EXCEPT ![k] = Remove(d[k], c)]

unlisten(opname, k, c) ==
    LET raises == unlistenRaises(eventdict, k, c)
        only == \A s \in subs : s[2] = c => s[1] = k
    IN  /\ eventdict' = unlistenDict(eventdict, k, c)
        /\ last' = [NoOp EXCEPT !.op = opname, !.key = k, !.cb = c,
                                !.pre = eventdict, !.raised = raises]
        /\ subs' = IF raises THEN subs ELSE subs \ {<<k, c>>}
        /\ cancelled' =
              IF ~raises /\ <<k, c>> \in subs /\ only
                 /\ Len(k) = 2 /\ k[2] = "*"
              THEN cancelled \cup {c}
              ELSE cancelled
        /\ UNCHANGED <<scene, fvars, avars, svars, rvars>>

unlistenKeyEvent(t, n, c) == unlisten("unlistenKeyEvent", KeyKey(t, n), c)

unlistenMouseEvent(t, c) == unlisten("unlistenMouseEvent", MouseKey(t), c)

(***************************************************************************)
(* Specification of the event subsystem                                    *)
(***************************************************************************)

NoSpriteOp == [op |-> "init", id |-> 0, pre |-> <<>>]

\* A class is named by its chain of bases below object: Sprite, and a
\* user's class Ship(Sprite).  NoClass is None.
SpriteClass == <<"Sprite">>

ShipClass == <<"Sprite", "Ship">>

Classes == {SpriteClass, ShipClass}

NoClass == <<>>

\* sysdeps: the browser branch defines GFX_Window itself, the other
\* branches import it from pygamedeps / headlessdeps.
Platforms == {"browser", "headless"}

NoRegistryOp ==
    [op |-> "init", id |-> 0, sclass |-> NoClass, raised |-> FALSE,
     result |-> <<>>, prelist |-> <<>>, predict |-> <<>>,
     afterdestroy |-> FALSE]

\* The registry after n sprites of class Sprite were constructed, with no
\* App.
\* App.run(userfunc = None)
NoUserfunc == "None"

NoTick == [op |-> "init", steps |-> 0, userfuncs |-> 0, requested |-> 0]

\* Frame(x, y, w, h)
Frame(x, y, w, h) == [x |-> x, y |-> y, w |-> w, h |-> h]

NoFrameOp == [op |-> "init", value |-> <<>>, pre |-> <<>>]

\* No window was made and App.run was not called; the one frame is
\* Frame(0, 0, 0, 0).
Stopped ==
    /\ scene = <<>>
    /\ frame = Frame(0, 0, 0, 0)
    /\ flast = NoFrameOp
    /\ userfunc = NoUserfunc
    /\ frames = 0
    /\ tick = NoTick
    /\ windows = 0
    /\ bindings = <<>>

Registered(n) ==
    /\ spritelist = [i \in 1..n |-> i]
    /\ spritesdict = IF n = 0 THEN <<>> ELSE SpriteClass :> [i \in 1..n |-> i]
    /\ win = FALSE
    /\ spritesadded = FALSE
    /\ platform = "browser"
    /\ spriteclass = [i \in 1..n |-> SpriteClass]
    /\ destroyed = {}
    /\ stale = {}
    /\ rlast = NoRegistryOp
    /\ Stopped

InitEvents ==
    /\ eventdict = <<>>
    /\ last = NoOp
    /\ subs = {}
    /\ cancelled = {}
    /\ sprites = <<>>
    /\ slast = NoSpriteOp
    /\ Registered(0)

ListenKey == \E t \in KeyTypes, n \in KeyNames, c \in Callbacks : listenKeyEvent(t, n, c)

ListenMouse == \E t \in MouseTypes, c \in Callbacks : listenMouseEvent(t, c)

UnlistenKey == \E t \in KeyTypes, n \in KeyNames, c \in Callbacks : unlistenKeyEvent(t, n, c)

UnlistenMouse == \E t \in MouseTypes, c \in Callbacks : unlistenMouseEvent(t, c)

KeyEvt ==
    \E t \in KeyTypes, code \in KeyCodes, cons \in SUBSET Callbacks :
        keyEvent(t, code, cons)

MouseEvt == \E t \in MouseTypes, cons \in SUBSET Callbacks : mouseEvent(t, cons)

NextEvents ==
    \/ ListenKey
    \/ ListenMouse
    \/ UnlistenKey
    \/ UnlistenMouse
    \/ KeyEvt
    \/ MouseEvt

SpecEvents == InitEvents /\ [][NextEvents]_vars

(***************************************************************************)
(* Claims about event routing                                              *)
(***************************************************************************)

NoDup(s) == \A i, j \in 1..Len(s) : s[i] = s[j] => i = j

Positions(s, x) == {i \in 1..Len(s) : s[i] = x}

IsKeyEvent == last.op = "keyEvent"

IsMouseEvent == last.op = "mouseEvent"

\* The lists the table held when the last key event arrived.
StoredPre == Get(last.pre, last.key)

WildPre == Get(last.pre, WildKey(last.key[1]))

\* s listens to the key of the last key event and not to "*", w listens to
\* "*" of the same phase, and s alone consumes the event.
C1_Case(s, w) ==
    /\ IsKeyEvent
    /\ s # w
    /\ <<last.key, s>> \in subs
    /\ <<WildKey(last.key[1]), s>> \notin subs
    /\ <<WildKey(last.key[1]), w>> \in subs
    /\ last.cons = {s}

\* C1 as claimed: with a "*" subscriber w and a key subscriber s that
\* consumes the event, a keydown of that key invokes s and does not invoke w.
C1_Original ==
    \A s, w \in Callbacks :
        C1_Case(s, w) =>
            /\ s \in Elems(last.invoked)
            /\ w \notin Elems(last.invoked)

\* C1 as amended: in that case the "*" subscribers are invoked first, in
\* reverse registration order, so w is invoked, and it is invoked before s;
\* s is the last callback invoked.
C1_Amended ==
    \A s, w \in Callbacks :
        C1_Case(s, w) =>
            /\ ~last.raised
            /\ Len(last.invoked) > Len(WildPre)
            /\ SubSeq(last.invoked, 1, Len(WildPre)) = Reverse(WildPre)
            /\ w \in Elems(SubSeq(last.invoked, 1, Len(WildPre)))
            /\ \A i \in Positions(last.invoked, s) : i > Len(WildPre)
            /\ last.invoked[Len(last.invoked)] = s

C1_Witness ==
    \E s, w \in Callbacks :
        /\ C1_Case(s, w)
        /\ last.invoked = <<w, s>>

C3_Claim == IsKeyEvent => eventdict = last.pre

\* C4 as claimed: no callback appears twice in a subscription list, and one
\* event invokes a callback at most once.
C4_Claim ==
    /\ \A k \in DOMAIN eventdict : NoDup(eventdict[k])
    /\ NoDup(last.invoked)

\* C5 as claimed: a callback that was subscribed only under <<type, "*">>
\* and was then successfully unsubscribed is invoked by no later key event.
C5_Claim == IsKeyEvent => Elems(last.invoked) \cap cancelled = {}

\* The first position of s that holds a member of cons, Len(s) when none.
RECURSIVE FirstIn(_, _, _)
FirstIn(s, cons, i) ==
    IF i >= Len(s) THEN Len(s)
    ELSE IF s[i] \in cons THEN i ELSE FirstIn(s, cons, i + 1)

\* C6: in one dispatch no callback is invoked after a callback that set
\* consumed; the callbacks invoked are the routed list reversed, up to and
\* including the first consuming callback.
C6_Theorem ==
    (IsKeyEvent \/ IsMouseEvent) =>
        /\ \A i \in 1..Len(last.invoked) :
              last.invoked[i] \in last.cons => i = Len(last.invoked)
        /\ last.consumed = (Elems(last.invoked) \cap last.cons # {})
        /\ ~last.raised =>
              last.invoked =
                  SubSeq(Reverse(last.evtlist), 1,
                         FirstIn(Reverse(last.evtlist), last.cons, 1))

C6_Witness ==
    /\ IsKeyEvent \/ IsMouseEvent
    /\ last.consumed
    /\ Len(last.invoked) = 2
    /\ Len(last.evtlist) = 3

\* C7: a pointer event that no callback consumes invokes the callbacks
\* subscribed to its type in the reverse of their registration order, each
\* once.
C7_Theorem ==
    (IsMouseEvent /\ last.cons = {}) =>
        /\ last.invoked = Reverse(Get(last.pre, last.key))
        /\ NoDup(last.invoked)
        /\ Elems(last.invoked) = {c \in Callbacks : <<last.key, c>> \in subs}

C7_Witness ==
    /\ IsMouseEvent /\ last.cons = {}
    /\ Len(last.invoked) = 2
    /\ last.invoked[1] # last.invoked[2]

IsUnlisten == last.op \in {"unlistenKeyEvent", "unlistenMouseEvent"}

\* C8: unlistening a callback the addressed list does not hold raises and
\* changes no list; unlistening one it holds removes one entry, that
\* callback's, from that list and changes no other list.
C8_Theorem ==
    IsUnlisten =>
        LET old == Get(last.pre, last.key)
        IN  /\ last.raised = (last.cb \notin Elems(old))
            /\ last.raised => eventdict = last.pre
            /\ ~last.raised =>
                  /\ DOMAIN eventdict = DOMAIN last.pre
                  /\ \A k \in DOMAIN eventdict \ {last.key} :
                        eventdict[k] = last.pre[k]
                  /\ \E i \in Positions(old, last.cb) :
                        eventdict[last.key] =
                            SubSeq(old, 1, i - 1) \o SubSeq(old, i + 1, Len(old))

C8_Witness ==
    /\ IsUnlisten
    /\ ~last.raised
    /\ Len(Get(last.pre, last.key)) = 3
    /\ last.cb \in Elems(eventdict[last.key])

\* C9 as claimed: a "*" subscriber is invoked for a key event of its phase
\* with any key code, and the dispatch does not raise.
C9_Claim ==
    (IsKeyEvent /\ WildPre # <<>>) =>
        /\ ~last.raised
        /\ last.cons = {} => Elems(WildPre) \subseteq Elems(last.invoked)

(***************************************************************************)
(* Sprite transform and extents (Sprite.__init__ .. Sprite.rotation)       *)
(*                                                                         *)
(* Coordinates are integers.  The anchor (fxcenter, fycenter) is kept in   *)
(* halves (0, 1 for 0.0, 0.5) and the rotation in quarter turns            *)
(* (0, 1 for 0 and pi/2), where cos and sin are 0 or +-1 and the sums and  *)
(* products of _xformVertices and _setExtents are exact: the arithmetic   *)
(* is that of the reals; the one place where floating-point rounding      *)
(* changes an integer result, int() of the circle offsets, is intLsin.     *)
(* Asset sizes are even so that the divisions by 2 and by the scale are    *)
(* exact.                                                                  *)
(* The display handle is PIXI's Sprite: its width is the texture width     *)
(* times scale.x, and assigning the width assigns scale.x.                 *)
(***************************************************************************)

\* RectangleAsset(width, height) and CircleAsset(radius) with the size of
\* the texture the display handle is made from.
RectangleAsset(w, h) == [kind |-> "RectangleAsset", width |-> w, height |-> h]

CircleAsset(r) == [kind |-> "CircleAsset", width |-> 2 * r, height |-> 2 * r]

Assets == {RectangleAsset(8, 4), CircleAsset(4)}

Coords == {0, 10}

Scales == {1, 2}

Rotations == {0, 1}

Anchors == {0, 1}

\* math.cos / math.sin of a rotation of q quarter turns.
Cos(q) == <<1, 0, -1, 0>>[(q % 4) + 1]

Sin(q) == <<0, 1, 0, -1>>[(q % 4) + 1]

SetMin(S) == CHOOSE x \in S : \A y \in S : x <= y

SetMax(S) == CHOOSE x \in S : \A y \in S : x >= y

\* The property getters of Sprite, read off the display handle.
Width(sp) == sp.asset.width * sp.sx

Height(sp) == sp.asset.height * sp.sy

Scale(sp) == sp.sx

\* Sprite._createBaseVertices: the vertex list of the edge definition; a
\* CircleAsset has none.
createBaseVertices(edgedef) ==
    IF edgedef.kind \in {"RectangleAsset", "ImageAsset"}
    THEN << <<0, 0>>, <<0, edgedef.height>>,
            <<edgedef.width, edgedef.height>>, <<edgedef.width, 0>> >>
    ELSE <<>>

\* _xformVertices that takes the vertices relative to the texture's corner
\* instead of the anchor.
xformVerticesNoAnchor(sp) ==
    LET sc == Scale(sp)
        crsc == [i \in 1..Len(sp.basevertices) |->
                    <<sp.basevertices[i][1] * sc, sp.basevertices[i][2] * sc>>]
        c == Cos(sp.rot)
        s == Sin(sp.rot)
    IN  [i \in 1..Len(crsc) |->
            <<sp.x + crsc[i][1] * c + crsc[i][2] * s,
              sp.y - crsc[i][1] * s + crsc[i][2] * c>>]

\* Sprite._xformVertices: the vertices relative to the anchor, scaled,
\* rotated and moved to the sprite's position.
xformVertices(sp) ==
    LET x == (Width(sp) * sp.ax) \div (2 * Scale(sp))
        y == (Height(sp) * sp.ay) \div (2 * Scale(sp))
        sc == Scale(sp)
        crsc == [i \in 1..Len(sp.basevertices) |->
                    <<(sp.basevertices[i][1] - x) * sc,
                      (sp.basevertices[i][2] - y) * sc>>]
        c == Cos(sp.rot)
        s == Sin(sp.rot)
    IN  [i \in 1..Len(crsc) |->
            <<sp.x + crsc[i][1] * c + crsc[i][2] * s,
              sp.y - crsc[i][1] * s + crsc[i][2] * c>>]

\* int(L*math.sin(th)) of the circle branch, given the real value ls of the
\* product.  The product is evaluated in binary floating point: for the
\* anchor (0, 0) and a displayed width of 14 or 28 it is 6.999999999999999
\* or 13.999999999999998 in magnitude and int() drops the fraction; for the
\* other widths and anchors of the model, and for L*math.cos(th), the float
\* product is the real value or just above it in magnitude.
ShortWidths == {14, 28}

intLsin(sp, ls) ==
    IF Width(sp) \in ShortWidths /\ sp.ax = 0 /\ sp.ay = 0
    THEN IF ls > 0 THEN ls - 1 ELSE IF ls < 0 THEN ls + 1 ELSE 0
    ELSE ls

\* The extents _setExtents computes when _extentsdirty is set.
computeExtents(sp) ==
    IF sp.asset.kind = "CircleAsset"
    THEN LET D == Width(sp)
             \* L*cos(th), L*sin(th) for th = atan2(fy - 0.5, 0.5 - fx) + rotation
             lc0 == (D * (1 - sp.ax)) \div 2
             ls0 == (D * (sp.ay - 1)) \div 2
             lc == lc0 * Cos(sp.rot) - ls0 * Sin(sp.rot)
             ls == intLsin(sp, ls0 * Cos(sp.rot) + lc0 * Sin(sp.rot))
             xmin == sp.x + lc - D \div 2
             ymin == sp.y - ls - D \div 2
         IN  [xmin |-> xmin, xmax |-> xmin + D, ymin |-> ymin, ymax |-> ymin + D]
    ELSE LET v == xformVertices(sp)
             xs == {v[i][1] : i \in 1..Len(v)}
             ys == {v[i][2] : i \in 1..Len(v)}
         IN  [xmin |-> SetMin(xs), xmax |-> SetMax(xs),
              ymin |-> SetMin(ys), ymax |-> SetMax(ys)]

\* _setExtents without the test of _extentsdirty.
setExtentsAlways(sp) ==
    LET e == computeExtents(sp)
    IN  [sp EXCEPT !.xmin = e.xmin, !.xmax = e.xmax,
                   !.ymin = e.ymin, !.ymax = e.ymax, !.dirty = FALSE]

\* Sprite._setExtents
setExtents(sp) ==
    IF sp.dirty
    THEN LET e == computeExtents(sp)
         IN  [sp EXCEPT !.xmin = e.xmin, !.xmax = e.xmax,
                        !.ymin = e.ymin, !.ymax = e.ymax, !.dirty = FALSE]
    ELSE sp

\* A y setter that moves the sprite and marks the extents dirty instead of
\* shifting them.
setYMarkDirty(sp, value) == [sp EXCEPT !.y = value, !.dirty = TRUE]

\* Sprite.x / Sprite.y setters: the cached extents move with the sprite.
setX(sp, value) ==
    LET deltax == value - sp.x
    IN  [sp EXCEPT !.xmax = @ + deltax, !.xmin = @ + deltax, !.x = value]

setY(sp, value) ==
    LET deltay == value - sp.y
    IN  [sp EXCEPT !.ymax = @ + deltay, !.ymin = @ + deltay, !.y = value]

\* Sprite.position setter: self.x, self.y = value
setPosition(sp, value) == setY(setX(sp, value[1]), value[2])

\* Sprite.fxcenter / fycenter / center setters
setFxcenter(sp, value) == [sp EXCEPT !.ax = value, !.dirty = TRUE]

setFycenter(sp, value) == [sp EXCEPT !.ay = value, !.dirty = TRUE]

\* A center setter that leaves _extentsdirty alone.
setCenterKeepClean(sp, value) == [sp EXCEPT !.ax = value[1], !.ay = value[2]]

setCenter(sp, value) ==
    [sp EXCEPT !.ax = value[1], !.ay = value[2], !.dirty = TRUE]

\* Sprite.scale setter
setScale(sp, value) == [sp EXCEPT !.sx = value, !.sy = value, !.dirty = TRUE]

\* Sprite.width / Sprite.height setters: the display handle takes the new
\* size by changing its scale.x / scale.y (value is a multiple of the
\* texture size).
setWidth(sp, value) ==
    [sp EXCEPT !.sx = value \div sp.asset.width, !.dirty = TRUE]

setHeight(sp, value) ==
    [sp EXCEPT !.sy = value \div sp.asset.height, !.dirty = TRUE]

\* Sprite.rotation setter: self.GFX.rotation = -value;
\* if value: self._extentsdirty = True
setRotation(sp, value) ==
    [sp EXCEPT !.rot = value, !.dirty = IF value # 0 THEN TRUE ELSE @]

\* Sprite.__init__(asset, pos) with no edgedef: the edge definition is the
\* asset; extents start at 0, the position is assigned, the extents are
\* computed.
newSprite(asset, pos) ==
    LET sp0 == [asset |-> asset, edgedef |-> asset,
                basevertices |-> createBaseVertices(asset),
                x |-> 0, y |-> 0, ax |-> 0, ay |-> 0, sx |-> 1, sy |-> 1,
                rot |-> 0, xmin |-> 0, xmax |-> 0, ymin |-> 0, ymax |-> 0,
                dirty |-> FALSE]
    IN  setExtents([setPosition(sp0, pos) EXCEPT !.dirty = TRUE])

\* One operation on sprite i.
SpriteOp(opname, i, sp) ==
    /\ sprites' = [sprites EXCEPT ![i] = sp]
    /\ slast' = [op |-> opname, id |-> i, pre |-> sprites[i]]
    /\ UNCHANGED <<scene, fvars, avars, evars, rvars>>

SetX == \E i \in DOMAIN sprites, v \in Coords :
            SpriteOp("x", i, setX(sprites[i], v))

SetY == \E i \in DOMAIN sprites, v \in Coords :
            SpriteOp("y", i, setY(sprites[i], v))

SetPosition == \E i \in DOMAIN sprites, v \in Coords \X Coords :
                   SpriteOp("position", i, setPosition(sprites[i], v))

SetFxcenter == \E i \in DOMAIN sprites, v \in Anchors :
                   SpriteOp("fxcenter", i, setFxcenter(sprites[i], v))

SetFycenter == \E i \in DOMAIN sprites, v \in Anchors :
                   SpriteOp("fycenter", i, setFycenter(sprites[i], v))

SetCenter == \E i \in DOMAIN sprites, v \in Anchors \X Anchors :
                 SpriteOp("center", i, setCenter(sprites[i], v))

SetScale == \E i \in DOMAIN sprites, v \in Scales :
                SpriteOp("scale", i, setScale(sprites[i], v))

SetWidth == \E i \in DOMAIN sprites, v \in Scales :
                SpriteOp("width", i,
                         setWidth(sprites[i], v * sprites[i].asset.width))

SetHeight == \E i \in DOMAIN sprites, v \in Scales :
                 SpriteOp("height", i,
                          setHeight(sprites[i], v * sprites[i].asset.height))

SetRotation == \E i \in DOMAIN sprites, v \in Rotations :
                   SpriteOp("rotation", i, setRotation(sprites[i], v))

SetExtents == \E i \in DOMAIN sprites :
                  SpriteOp("_setExtents", i, setExtents(sprites[i]))

\* One sprite, just constructed; no subscriptions.
InitExtents ==
    /\ eventdict = <<>>
    /\ last = NoOp
    /\ subs = {}
    /\ cancelled = {}
    /\ \E a \in Assets, pos \in Coords \X Coords :
          sprites = [i \in {1} |-> newSprite(a, pos)]
    /\ slast = NoSpriteOp
    /\ Registered(1)

NextExtents ==
    \/ SetX
    \/ SetY
    \/ SetPosition
    \/ SetFxcenter
    \/ SetFycenter
    \/ SetCenter
    \/ SetScale
    \/ SetWidth
    \/ SetHeight
    \/ SetRotation
    \/ SetExtents

SpecExtents == InitExtents /\ [][NextExtents]_vars

(***************************************************************************)
(* Claims about the extents cache                                          *)
(***************************************************************************)

Cached(sp) == [xmin |-> sp.xmin, xmax |-> sp.xmax, ymin |-> sp.ymin, ymax |-> sp.ymax]

\* C10 as claimed: whenever _extentsdirty is false, the cached extents are
\* the ones a full recomputation from the current transform gives.
C10_Claim ==
    \A i \in DOMAIN sprites :
        ~sprites[i].dirty => Cached(sprites[i]) = computeExtents(sprites[i])

\* C11: a translation through x, y or position moves xmin and xmax by the
\* change of x and ymin and ymax by the change of y, and leaves
\* _extentsdirty as it was.
C11_Theorem ==
    slast.op \in {"x", "y", "position"} =>
        LET pre == slast.pre
            cur == sprites[slast.id]
            dx == cur.x - pre.x
            dy == cur.y - pre.y
        IN  /\ cur.xmin = pre.xmin + dx
            /\ cur.xmax = pre.xmax + dx
            /\ cur.ymin = pre.ymin + dy
            /\ cur.ymax = pre.ymax + dy
            /\ cur.dirty = pre.dirty

\* A position assignment that moves a sprite with a clean cache on both
\* axes.
C11_Witness ==
    /\ slast.op = "position"
    /\ ~slast.pre.dirty
    /\ sprites[slast.id].x # slast.pre.x
    /\ sprites[slast.id].y # slast.pre.y

(***************************************************************************)
(* Collision detection (Sprite.collidingWith)                              *)
(***************************************************************************)

\* The gross check with the two tests of self.xmin and self.ymin only.
apartOneSided(a, b) ==
    \/ a.xmin > b.xmax
    \/ a.ymin > b.ymax

\* The gross check with boxes that touch taken for boxes apart.
apartOrTouching(a, b) ==
    \/ a.xmin >= b.xmax
    \/ a.xmax <= b.xmin
    \/ a.ymin >= b.ymax
    \/ a.ymax <= b.ymin

\* The gross check of collidingWith on the cached extents.
apart(a, b) ==
    \/ a.xmin > b.xmax
    \/ a.xmax < b.xmin
    \/ a.ymin > b.ymax
    \/ a.ymax < b.ymin

\* Two circles: d = sqrt((sx-ox)**2 + (sy-oy)**2) <= self.width/2 +
\* obj.width/2 with sx = (xmin + xmax)/2 etc., compared as
\* 4*d**2 <= (self.width + obj.width)**2 in integers.
circleDistance(a, b) ==
    LET sx2 == a.xmin + a.xmax
        sy2 == a.ymin + a.ymax
        ox2 == b.xmin + b.xmax
        oy2 == b.ymin + b.ymax
        w == Width(a) + Width(b)
    IN  (sx2 - ox2) * (sx2 - ox2) + (sy2 - oy2) * (sy2 - oy2) <= w * w

\* Sprite.collidingCircleWithPoly / Sprite.collidingPolyWithPoly
collidingCircleWithPoly(circ, poly) == TRUE

collidingPolyWithPoly(a, b) == TRUE

\* The careful overlap determination, chosen by the types of the two
\* assets; narrow names the test that ran.
narrowPhase(a, b) ==
    IF a.asset.kind = "CircleAsset"
    THEN IF b.asset.kind = "CircleAsset"
         THEN [result |-> circleDistance(a, b), narrow |-> "distance"]
         ELSE [result |-> collidingCircleWithPoly(a, b),
               narrow |-> "collidingCircleWithPoly"]
    ELSE IF b.asset.kind = "CircleAsset"
         THEN [result |-> collidingCircleWithPoly(b, a),
               narrow |-> "collidingCircleWithPoly"]
         ELSE [result |-> collidingPolyWithPoly(a, b),
               narrow |-> "collidingPolyWithPoly"]

\* collidingWith without the test `self is obj`.
collidingWithNoSelfTest(S, i, j) ==
    LET a == setExtents(S[i])
        b == setExtents([S EXCEPT ![i] = a][j])
        S2 == [S EXCEPT ![i] = a, ![j] = b]
    IN  IF apart(a, b)
        THEN [sprites |-> S2, result |-> FALSE, narrow |-> "none"]
        ELSE [sprites |-> S2] @@ narrowPhase(a, b)

\* collidingWith without obj._setExtents().
collidingWithSelfRefreshed(S, i, j) ==
    IF i = j
    THEN [sprites |-> S, result |-> FALSE, narrow |-> "none"]
    ELSE LET a == setExtents(S[i])
             b == S[j]
             S2 == [S EXCEPT ![i] = a]
         IN  IF apart(a, b)
             THEN [sprites |-> S2, result |-> FALSE, narrow |-> "none"]
             ELSE [sprites |-> S2] @@ narrowPhase(a, b)

\* collidingWith without the gross check.
collidingWithNoGrossCheck(S, i, j) ==
    IF i = j
    THEN [sprites |-> S, result |-> FALSE, narrow |-> "none"]
    ELSE LET a == setExtents(S[i])
             b == setExtents(S[j])
             S2 == [S EXCEPT ![i] = a, ![j] = b]
         IN  [sprites |-> S2] @@ narrowPhase(a, b)

\* Sprite.collidingWith for self = sprite i and obj = sprite j of S: the
\* sprites after the call (both extents refreshed), the value returned and
\* the careful test that ran.
collidingWith(S, i, j) ==
    IF i = j
    THEN [sprites |-> S, result |-> FALSE, narrow |-> "none"]
    ELSE LET a == setExtents(S[i])
             b == setExtents(S[j])
             S2 == [S EXCEPT ![i] = a, ![j] = b]
         IN  IF apart(a, b)
             THEN [sprites |-> S2, result |-> FALSE, narrow |-> "none"]
             ELSE [sprites |-> S2] @@ narrowPhase(a, b)

CollidingWith ==
    \E i \in DOMAIN sprites, j \in DOMAIN sprites :
        LET r == collidingWith(sprites, i, j)
        IN  /\ sprites' = r.sprites
            /\ slast' = [op |-> "collidingWith", id |-> i, pre |-> sprites[i],
                         obj |-> j, result |-> r.result, narrow |-> r.narrow]
            /\ UNCHANGED <<scene, fvars, avars, evars, rvars>>

\* Two sprites to collide: a rectangle and circles of radius 4 and 7, at
\* places that put them apart, touching, overlapping, and with overlapping
\* boxes but the circles apart.
CollideAssets == {RectangleAsset(8, 4), CircleAsset(4), CircleAsset(7)}

CollidePlaces == {<<0, 0>>, <<8, 0>>, <<7, 7>>, <<3, 14>>}

Place == \E i \in DOMAIN sprites, v \in CollidePlaces :
             SpriteOp("position", i, setPosition(sprites[i], v))

InitCollide ==
    /\ eventdict = <<>>
    /\ last = NoOp
    /\ subs = {}
    /\ cancelled = {}
    /\ \E a \in CollideAssets, b \in CollideAssets,
          p \in CollidePlaces, q \in CollidePlaces :
          sprites = <<newSprite(a, p), newSprite(b, q)>>
    /\ slast = NoSpriteOp
    /\ Registered(2)

NextCollide ==
    \/ Place
    \/ SetScale
    \/ CollidingWith

SpecCollide == InitCollide /\ [][NextCollide]_vars

(***************************************************************************)
(* Claims about collidingWith                                              *)
(***************************************************************************)

IsCollidingWith == slast.op = "collidingWith"

\* C12: when the extents of two distinct sprites, as collidingWith refreshed
\* them, do not overlap, collidingWith returns False and runs none of the
\* careful tests.
C12_Theorem ==
    (/\ IsCollidingWith
     /\ slast.id # slast.obj
     /\ apart(sprites[slast.id], sprites[slast.obj])) =>
        /\ slast.result = FALSE
        /\ slast.narrow = "none"

\* Two circles with separate boxes, one of them refreshed by the call.
C12_Witness ==
    /\ IsCollidingWith
    /\ slast.id # slast.obj
    /\ apart(sprites[slast.id], sprites[slast.obj])
    /\ slast.pre.dirty
    /\ sprites[slast.id].asset.kind = "CircleAsset"
    /\ sprites[slast.obj].asset.kind = "CircleAsset"

\* The centre of the circle a CircleAsset sprite displays: the anchor is at
\* (x, y), the centre of the texture is (0.5 - fxcenter, 0.5 - fycenter)
\* widths away from it, turned by the rotation.
circleCentre(sp) ==
    LET D == Width(sp)
        lc0 == (D * (1 - sp.ax)) \div 2
        ls0 == (D * (sp.ay - 1)) \div 2
    IN  <<sp.x + lc0 * Cos(sp.rot) - ls0 * Sin(sp.rot),
          sp.y - (ls0 * Cos(sp.rot) + lc0 * Sin(sp.rot))>>

\* d <= r1 + r2 for the centres and radii (half the displayed width) of two
\* circle sprites, compared as 4*d**2 <= (2*r1 + 2*r2)**2.
WithinRadii(a, b) ==
    LET ca == circleCentre(a)
        cb == circleCentre(b)
        dx == ca[1] - cb[1]
        dy == ca[2] - cb[2]
        w == Width(a) + Width(b)
    IN  4 * (dx * dx + dy * dy) <= w * w

\* C13 as claimed: for two distinct circle sprites collidingWith returns
\* True exactly when the distance of their centres is at most the sum of
\* their radii.
C13_Claim ==
    (/\ IsCollidingWith
     /\ slast.id # slast.obj
     /\ sprites[slast.id].asset.kind = "CircleAsset"
     /\ sprites[slast.obj].asset.kind = "CircleAsset") =>
        (slast.result <=> WithinRadii(sprites[slast.id], sprites[slast.obj]))

\* C14: collidingWith(a, a) returns False.
C14_Theorem ==
    (IsCollidingWith /\ slast.id = slast.obj) => slast.result = FALSE

\* A scaled circle with dirty extents, lying on the other sprite, asked
\* about itself.
C14_Witness ==
    /\ IsCollidingWith
    /\ slast.id = slast.obj
    /\ slast.pre.dirty
    /\ slast.pre.asset.kind = "CircleAsset"
    /\ slast.pre.sx = 2
    /\ \E j \in DOMAIN sprites \ {slast.id} :
          sprites[j].x = slast.pre.x /\ sprites[j].y = slast.pre.y

(***************************************************************************)
(* The sprite registry (App._add, App._remove, App.getSpritesbyClass,      *)
(* Sprite.destroy, Sprite.collidingWithSprites, App.__init__,              *)
(* App._destroy)                                                           *)
(*                                                                         *)
(* Sprite objects are named by their index in `sprites`, in the order of   *)
(* their construction; an object keeps its index after it is destroyed.    *)
(* The display list of the window (GFX_Window.add / remove) belongs to the *)
(* renderer and is not part of the state.                                  *)
(***************************************************************************)

\* Most Sprite objects a run constructs.
MaxSprites == 3

\* Whether the GFX_Window of the platform has the unbind method that
\* App._destroy calls: the class of the browser branch defines __init__,
\* bind, add, remove, animate and destroy only.  The windows of the other
\* branches are taken to have every method App calls.
hasUnbind(p) == p # "browser"

\* The rows of a registry value: the two containers and whether the
\* operation that produced them raised.
Registry(list, dict, raised) ==
    [spritelist |-> list, spritesdict |-> dict, raised |-> raised]

\* App._add(obj), first statement: with a window, the display object is
\* added to it.
sceneAdd(w, sc, i) == IF w THEN Append(sc, i) ELSE sc

\* App._remove(obj), first statement: with a window, the display object is
\* removed from it (nothing is removed when the window does not hold it).
sceneRemove(w, sc, i) ==
    IF w /\ i \in Elems(sc) THEN Remove(sc, i) ELSE sc

\* App.__init__ that hands no existing sprite to the new window.
sceneOfExistingNone(added, list) == <<>>

\* App.__init__: the sprites that exist are added to the new window, unless
\* _spritesadded says they were.
sceneOfExisting(added, list) ==
    IF ~added /\ Len(list) > 0 THEN list ELSE <<>>

\* App._add that leaves the per-class bucket alone.
appAddListOnly(R, i, cls) ==
    Registry(Append(R.spritelist, i), R.spritesdict, FALSE)

\* App._add(obj): append to App.spritelist and to the bucket of type(obj),
\* which is created when the class has none.
appAdd(R, i, cls) ==
    Registry(Append(R.spritelist, i),
             Put(R.spritesdict, cls, Append(Get(R.spritesdict, cls), i)),
             FALSE)

\* App._remove that ignores an object it does not hold.
appRemoveIfPresent(R, i, cls) ==
    IF i \notin Elems(R.spritelist)
    THEN Registry(R.spritelist, R.spritesdict, FALSE)
    ELSE Registry(Remove(R.spritelist, i),
                  [R.spritesdict EXCEPT ![cls] = Remove(@, i)], FALSE)

\* App._remove(obj): App.spritelist.remove(obj) raises ValueError when obj
\* is not in the list; then App._spritesdict[type(obj)].remove(obj) raises
\* KeyError or ValueError when the class has no bucket or the bucket does
\* not hold obj, the list already being shortened.
appRemove(R, i, cls) ==
    IF i \notin Elems(R.spritelist)
    THEN Registry(R.spritelist, R.spritesdict, TRUE)
    ELSE IF cls \notin DOMAIN R.spritesdict
         THEN Registry(Remove(R.spritelist, i), R.spritesdict, TRUE)
         ELSE IF i \notin Elems(R.spritesdict[cls])
              THEN Registry(Remove(R.spritelist, i), R.spritesdict, TRUE)
              ELSE Registry(Remove(R.spritelist, i),
                            [R.spritesdict EXCEPT ![cls] = Remove(@, i)],
                            FALSE)

\* App.getSpritesbyClass that knows no class.
getSpritesbyClassNone(dict, sclass) == <<>>

\* App.getSpritesbyClass: App._spritesdict.get(sclass, [])
getSpritesbyClass(dict, sclass) == Get(dict, sclass)

\* list(filter(self.collidingWith, slist)) for self = sprite i: the sprites
\* after the calls and the list returned.
RECURSIVE filterColliding(_, _, _, _)
filterColliding(S, i, slist, acc) ==
    IF slist = <<>>
    THEN [sprites |-> S, result |-> acc]
    ELSE LET r == collidingWith(S, i, Head(slist))
         IN  filterColliding(r.sprites, i, Tail(slist),
                             IF r.result THEN Append(acc, Head(slist)) ELSE acc)

\* collidingWithSprites that tests the candidates last to first.
collidingWithSpritesReversed(S, list, dict, i, sclass) ==
    filterColliding(S, i,
                    Reverse(IF sclass = NoClass
                            THEN list
                            ELSE getSpritesbyClass(dict, sclass)),
                    <<>>)

\* Sprite.collidingWithSprites(sclass) of sprite i.
collidingWithSprites(S, list, dict, i, sclass) ==
    filterColliding(S, i,
                    IF sclass = NoClass
                    THEN list
                    ELSE getSpritesbyClass(dict, sclass),
                    <<>>)

\* for s in list(App.spritelist): s.destroy(), on the registry R with the
\* destroyed handles D; the loop ends at the first destroy that raises.
RECURSIVE destroyAll(_, _, _)
destroyAll(R, D, todo) ==
    IF todo = <<>>
    THEN [registry |-> R, destroyed |-> D]
    ELSE LET r == appRemove(R, Head(todo), spriteclass[Head(todo)])
         IN  IF r.raised
             THEN [registry |-> r, destroyed |-> D]
             ELSE destroyAll(r, D \cup {Head(todo)}, Tail(todo))

\* The record of an App / registry operation.
RegistryOp(opname, i, sclass, raised, result) ==
    [op |-> opname, id |-> i, sclass |-> sclass, raised |-> raised,
     result |-> result, prelist |-> spritelist, predict |-> spritesdict,
     afterdestroy |-> rlast.op = "_destroy"]

\* Sprite(asset, pos) of a class in Classes: the sprite is constructed and
\* registered (App._add(self), the last statement of Sprite.__init__).
NewSprite(C) ==
    \E c \in C :
        LET i == Len(sprites) + 1
            r == appAdd(Registry(spritelist, spritesdict, FALSE), i, c[1])
        IN  /\ Len(sprites) < MaxSprites
            /\ sprites' = Append(sprites, newSprite(c[2], c[3]))
            /\ spriteclass' = Append(spriteclass, c[1])
            /\ spritelist' = r.spritelist
            /\ spritesdict' = r.spritesdict
            /\ rlast' = RegistryOp("Sprite", i, c[1], FALSE, <<>>)
            /\ scene' = sceneAdd(win, scene, i)
            /\ UNCHANGED <<fvars, avars, evars, slast, win, spritesadded, platform,
                           destroyed, stale>>

\* App._add(obj) called for a sprite that exists already.
Add ==
    \E i \in DOMAIN sprites :
        LET r == appAdd(Registry(spritelist, spritesdict, FALSE), i,
                        spriteclass[i])
        IN  /\ Len(spritelist) < MaxSprites + 1
            /\ spritelist' = r.spritelist
            /\ spritesdict' = r.spritesdict
            /\ rlast' = RegistryOp("_add", i, spriteclass[i], r.raised, <<>>)
            /\ scene' = sceneAdd(win, scene, i)
            /\ UNCHANGED <<fvars, avars, evars, svars, win, spritesadded, platform,
                           spriteclass, destroyed, stale>>

\* Sprite.destroy(): App._remove(self); self.GFX.destroy()
Destroy ==
    \E i \in DOMAIN sprites :
        LET r == appRemove(Registry(spritelist, spritesdict, FALSE), i,
                           spriteclass[i])
        IN  /\ spritelist' = r.spritelist
            /\ spritesdict' = r.spritesdict
            /\ destroyed' = IF r.raised THEN destroyed ELSE destroyed \cup {i}
            /\ rlast' = RegistryOp("destroy", i, spriteclass[i], r.raised, <<>>)
            /\ scene' = sceneRemove(win, scene, i)
            /\ UNCHANGED <<fvars, avars, evars, svars, win, spritesadded, platform,
                           spriteclass, stale>>

\* Sprite.collidingWithSprites(sclass) of a sprite that was not destroyed,
\* sclass a class or None.
CollidingWithSprites ==
    \E i \in DOMAIN sprites \ destroyed, sclass \in Classes \cup {NoClass} :
        LET r == collidingWithSprites(sprites, spritelist, spritesdict, i,
                                      sclass)
        IN  /\ sprites' = r.sprites
            /\ rlast' = RegistryOp("collidingWithSprites", i, sclass, FALSE,
                                   r.result)
            /\ UNCHANGED <<scene, fvars, avars, evars, slast, spritelist, spritesdict, win,
                           spritesadded, platform, spriteclass, destroyed,
                           stale>>

\* App(*args): without a window and with no or two arguments, a window is
\* made, the sprites that exist are handed to it once, and the nine event
\* types are bound on it; otherwise nothing changes.
WindowEvents ==
    <<"keydown", "keyup", "keypress", "mousewheel", "mousemove", "mousedown",
      "mouseup", "click", "dblclick">>

AppOp(nargs) ==
    IF nargs = 0 THEN "App"
    ELSE IF nargs = 2 THEN "App(w, h)"
    ELSE "App(...)"

appInit(nargs) ==
    LET create == ~win /\ (nargs = 0 \/ nargs = 2)
    IN  /\ win' = (win \/ create)
        /\ windows' = IF create THEN windows + 1 ELSE windows
        /\ spritesadded' = IF create /\ ~spritesadded /\ Len(spritelist) > 0
                           THEN TRUE
                           ELSE spritesadded
        /\ bindings' = IF create THEN bindings \o WindowEvents ELSE bindings
        /\ rlast' = RegistryOp(AppOp(nargs), 0, NoClass, FALSE, <<>>)
        /\ scene' = IF create
                    THEN sceneOfExisting(spritesadded, spritelist)
                    ELSE scene
        /\ UNCHANGED <<fvars, evars, svars, userfunc, frames, tick, spritelist,
                       spritesdict, platform, spriteclass, destroyed, stale>>

NewApp == appInit(0)

\* The subscriptions a table holds.
Subscriptions(d) == UNION {{<<k, c>> : c \in Elems(d[k])} : k \in DOMAIN d}

\* The nine unbind calls of App._destroy.
unbindAll(bound) ==
    SelectSeq(bound, LAMBDA e : e \notin Elems(WindowEvents))

\* App._destroy(): with a window, the event handlers are unbound (the call
\* raises AttributeError where the window has no unbind) and the window is
\* destroyed; then App._win = None, every sprite of a copy of App.spritelist
\* is destroyed, and the list, the buckets, the subscription table and
\* _spritesadded are reset.
AppDestroy ==
    LET r == destroyAll(Registry(spritelist, spritesdict, FALSE), destroyed,
                        spritelist)
    IN  IF win /\ ~hasUnbind(platform)
        THEN /\ subs' = {}
             /\ cancelled' = {}
             /\ stale' = Subscriptions(eventdict)
             /\ last' = [NoOp EXCEPT !.op = "_destroy", !.pre = eventdict,
                                     !.raised = TRUE]
             /\ rlast' = RegistryOp("_destroy", 0, NoClass, TRUE, <<>>)
             /\ UNCHANGED <<scene, fvars, avars, eventdict, svars, spritelist, spritesdict, win,
                            spritesadded, platform, spriteclass, destroyed>>
        ELSE IF r.registry.raised
        THEN /\ win' = FALSE
             /\ spritelist' = r.registry.spritelist
             /\ spritesdict' = r.registry.spritesdict
             /\ destroyed' = r.destroyed
             /\ subs' = {}
             /\ cancelled' = {}
             /\ stale' = Subscriptions(eventdict)
             /\ last' = [NoOp EXCEPT !.op = "_destroy", !.pre = eventdict,
                                     !.raised = TRUE]
             /\ rlast' = RegistryOp("_destroy", 0, NoClass, TRUE, <<>>)
             /\ windows' = IF win THEN windows - 1 ELSE windows
             /\ bindings' = IF win THEN unbindAll(bindings) ELSE bindings
             /\ frames' = IF win THEN 0 ELSE frames
             /\ scene' = IF win THEN <<>> ELSE scene
             /\ UNCHANGED <<fvars, userfunc, tick, eventdict, svars, spritesadded,
                            platform, spriteclass>>
        ELSE /\ win' = FALSE
             /\ spritelist' = <<>>
             /\ spritesdict' = <<>>
             /\ eventdict' = <<>>
             /\ spritesadded' = FALSE
             /\ destroyed' = r.destroyed
             /\ subs' = {}
             /\ cancelled' = {}
             /\ stale' = Subscriptions(eventdict)
             /\ last' = [NoOp EXCEPT !.op = "_destroy", !.pre = eventdict]
             /\ rlast' = RegistryOp("_destroy", 0, NoClass, FALSE, <<>>)
             /\ windows' = IF win THEN windows - 1 ELSE windows
             /\ bindings' = IF win THEN unbindAll(bindings) ELSE bindings
             /\ frames' = IF win THEN 0 ELSE frames
             /\ scene' = IF win THEN <<>> ELSE scene
             /\ UNCHANGED <<fvars, userfunc, tick, svars, platform, spriteclass>>

\* A pointer event reaches App._mouseEvent through the window it is bound
\* to.
WindowMouseEvt == win /\ MouseEvt

\* The sprites a run constructs: of both classes, on one place (where they
\* collide) and on another.
Constructions ==
    {<<SpriteClass, RectangleAsset(8, 4), <<0, 0>>>>,
     <<SpriteClass, CircleAsset(4), <<20, 0>>>>,
     <<ShipClass, CircleAsset(4), <<0, 0>>>>,
     <<ShipClass, RectangleAsset(8, 4), <<20, 0>>>>}

InitRegistry ==
    /\ eventdict = <<>>
    /\ last = NoOp
    /\ subs = {}
    /\ cancelled = {}
    /\ sprites = <<>>
    /\ slast = NoSpriteOp
    /\ spritelist = <<>>
    /\ spritesdict = <<>>
    /\ win = FALSE
    /\ spritesadded = FALSE
    /\ platform \in Platforms
    /\ spriteclass = <<>>
    /\ destroyed = {}
    /\ stale = {}
    /\ rlast = NoRegistryOp
    /\ Stopped

NextRegistry ==
    \/ NewSprite(Constructions)
    \/ Destroy
    \/ CollidingWithSprites
    \/ NewApp
    \/ AppDestroy

SpecRegistry == InitRegistry /\ [][NextRegistry]_vars

\* The registry with App._add called directly as well, for sprites of two
\* classes on one place.
ReaddConstructions ==
    {<<SpriteClass, RectangleAsset(8, 4), <<0, 0>>>>,
     <<ShipClass, CircleAsset(4), <<0, 0>>>>}

NextReadd ==
    \/ NewSprite(ReaddConstructions)
    \/ Destroy
    \/ Add
    \/ NewApp
    \/ AppDestroy

SpecReadd == InitRegistry /\ [][NextReadd]_vars

\* The registry with pointer subscriptions and pointer events, for sprites
\* of one kind.
ResetConstructions == {<<SpriteClass, RectangleAsset(8, 4), <<0, 0>>>>}

NextReset ==
    \/ NewSprite(ResetConstructions)
    \/ Destroy
    \/ NewApp
    \/ AppDestroy
    \/ ListenMouse
    \/ WindowMouseEvt

SpecReset == InitRegistry /\ [][NextReset]_vars

(***************************************************************************)
(* Claims about the registry                                               *)
(***************************************************************************)

IsQuery == rlast.op = "collidingWithSprites"

\* The registered sprites of class sclass (of any class when sclass is
\* None) that sprite e collides with, in the order of App.spritelist.
Colliding(e, sclass) ==
    SelectSeq(spritelist,
              LAMBDA j : /\ sclass = NoClass \/ spriteclass[j] = sclass
                         /\ collidingWith(sprites, e, j).result)

\* C15: collidingWithSprites(sclass) returns the registered sprites of that
\* class (all of them for None) that collidingWith holds for, in the order
\* of their registration, and never the asking sprite or a destroyed one.
C15_Theorem ==
    IsQuery =>
        /\ rlast.result = Colliding(rlast.id, rlast.sclass)
        /\ rlast.id \notin Elems(rlast.result)
        /\ Elems(rlast.result) \cap destroyed = {}

\* A query for one class that finds a sprite, while a destroyed sprite of
\* that class lies on the asking sprite's place.
C15_Witness ==
    /\ IsQuery
    /\ rlast.sclass # NoClass
    /\ rlast.result # <<>>
    /\ \E d \in destroyed :
          /\ spriteclass[d] = rlast.sclass
          /\ sprites[d].x = sprites[rlast.id].x

\* C16: for every sprite e that is not destroyed, collidingWithSprites(None)
\* holds the same sprites as collidingWithSprites(k) for the classes k of
\* the registry taken together.
C16_Theorem ==
    \A e \in DOMAIN sprites \ destroyed :
        Elems(collidingWithSprites(sprites, spritelist, spritesdict, e,
                                   NoClass).result)
        = UNION {Elems(collidingWithSprites(sprites, spritelist, spritesdict,
                                            e, k).result) :
                    k \in DOMAIN spritesdict}

\* collidingWithSprites(None) has returned sprites of two classes.
C16_Witness ==
    /\ IsQuery
    /\ rlast.sclass = NoClass
    /\ \E i \in Elems(rlast.result), j \in Elems(rlast.result) :
          spriteclass[i] # spriteclass[j]

\* C17: App.spritelist holds every sprite that was constructed and not
\* destroyed exactly once and no other; the bucket of every class is
\* App.spritelist restricted to the sprites of exactly that class, in the
\* same order.
C17_Theorem ==
    /\ NoDup(spritelist)
    /\ Elems(spritelist) = DOMAIN sprites \ destroyed
    /\ DOMAIN spritesdict \subseteq Classes
    /\ \A c \in Classes :
          Get(spritesdict, c) = SelectSeq(spritelist, LAMBDA j : spriteclass[j] = c)

\* Of three sprites the second was destroyed; the other two are of one
\* class.
C17_Witness ==
    /\ rlast.op = "destroy"
    /\ ~rlast.raised
    /\ rlast.id = 2
    /\ spritelist = <<1, 3>>
    /\ spriteclass[1] = spriteclass[3]

\* C18 as claimed (rlast and last both name _destroy in the state a call
\* of App._destroy ends in): App._destroy leaves App.spritelist, every bucket and
\* every subscription list empty and no window; a sprite constructed right
\* after it is the only registered sprite; no callback that was subscribed
\* when App._destroy was called, and not again since, is invoked by an
\* event.
C18_Claim ==
    /\ (rlast.op = "_destroy" /\ last.op = "_destroy") =>
          /\ spritelist = <<>>
          /\ \A c \in DOMAIN spritesdict : spritesdict[c] = <<>>
          /\ \A k \in DOMAIN eventdict : eventdict[k] = <<>>
          /\ ~win
    /\ (rlast.op = "Sprite" /\ rlast.afterdestroy) =>
          /\ spritelist = <<rlast.id>>
          /\ \A c \in DOMAIN spritesdict :
                spritesdict[c] = IF c = rlast.sclass THEN <<rlast.id>> ELSE <<>>
    /\ last.op = "mouseEvent" =>
          \A c \in Elems(last.invoked) : <<last.key, c>> \notin stale \ subs

\* C19 as claimed: App._add of a sprite that is registered raises and
\* leaves App.spritelist and the buckets as they were; no sprite is twice in
\* App.spritelist.
C19_Claim ==
    /\ (rlast.op = "_add" /\ rlast.id \in Elems(rlast.prelist)) =>
          /\ rlast.raised
          /\ spritelist = rlast.prelist
          /\ spritesdict = rlast.predict
    /\ NoDup(spritelist)

\* C20: destroy() of a sprite that is not in App.spritelist raises and
\* leaves App.spritelist and every bucket as they were.
C20_Theorem ==
    (rlast.op = "destroy" /\ rlast.id \notin Elems(rlast.prelist)) =>
        /\ rlast.raised
        /\ spritelist = rlast.prelist
        /\ spritesdict = rlast.predict

\* A destroyed sprite is destroyed again while two others are registered.
C20_Witness ==
    /\ rlast.op = "destroy"
    /\ rlast.id \in destroyed
    /\ rlast.id \notin Elems(rlast.prelist)
    /\ Len(spritelist) = 2

(***************************************************************************)
(* The anchor and the vertices                                             *)
(***************************************************************************)

\* One rectangle of 100 by 100, unscaled and unrotated, whose anchor and
\* position are assigned.
AnchorAssets == {RectangleAsset(100, 100)}

InitAnchor ==
    /\ eventdict = <<>>
    /\ last = NoOp
    /\ subs = {}
    /\ cancelled = {}
    /\ \E a \in AnchorAssets, pos \in Coords \X Coords :
          sprites = <<newSprite(a, pos)>>
    /\ slast = NoSpriteOp
    /\ Registered(1)

NextAnchor ==
    \/ SetPosition
    \/ SetFxcenter
    \/ SetFycenter
    \/ SetCenter
    \/ SetExtents

SpecAnchor == InitAnchor /\ [][NextAnchor]_vars

\* The 100 by 100 rectangle at (10, 10) with the anchor (0.5, 0.5), its
\* extents just refreshed.
C21_Case(sp) ==
    /\ slast.op = "_setExtents"
    /\ sp.asset = RectangleAsset(100, 100)
    /\ sp.x = 10 /\ sp.y = 10
    /\ sp.ax = 1 /\ sp.ay = 1
    /\ Scale(sp) = 1 /\ sp.rot = 0
    /\ ~sp.dirty

\* C21 as claimed: in that case xmin is 10 and xmax is 110.
C21_Original ==
    \A i \in DOMAIN sprites :
        C21_Case(sprites[i]) => sprites[i].xmin = 10 /\ sprites[i].xmax = 110

\* C21 as amended: the vertices are taken relative to the anchor, so the
\* box is moved by half the size against the box of the anchor (0, 0):
\* xmin is -40 and xmax is 60, and so are ymin and ymax.
C21_Amended ==
    \A i \in DOMAIN sprites :
        C21_Case(sprites[i]) =>
            /\ sprites[i].xmin = -40 /\ sprites[i].xmax = 60
            /\ sprites[i].ymin = -40 /\ sprites[i].ymax = 60

\* The case, reached by a refresh that found the extents dirty.
C21_Witness ==
    /\ slast.op = "_setExtents"
    /\ slast.pre.dirty
    /\ C21_Case(sprites[slast.id])

\* The vertex list vs moved by (dx, dy).
Translated(vs, dx, dy) == [i \in 1..Len(vs) |-> <<vs[i][1] + dx, vs[i][2] + dy>>]

\* A sprite with vertices, scale 1 and rotation 0.
C22_Case(sp) ==
    /\ sp.asset.kind # "CircleAsset"
    /\ Scale(sp) = 1
    /\ sp.rot = 0

\* C22 as claimed: in that case the vertices _xformVertices gives are the
\* base vertices moved by the sprite's position, whatever the anchor.
C22_Original ==
    \A i \in DOMAIN sprites :
        C22_Case(sprites[i]) =>
            xformVertices(sprites[i])
            = Translated(sprites[i].basevertices, sprites[i].x, sprites[i].y)

\* C22 as amended: they are the base vertices moved by the position less
\* the anchor's place in the texture, (width * fxcenter, height * fycenter)
\* (the anchor is kept in halves); this is the position for the anchor
\* (0, 0) only.
C22_Amended ==
    \A i \in DOMAIN sprites :
        C22_Case(sprites[i]) =>
            xformVertices(sprites[i])
            = Translated(sprites[i].basevertices,
                         sprites[i].x - (Width(sprites[i]) * sprites[i].ax) \div 2,
                         sprites[i].y - (Height(sprites[i]) * sprites[i].ay) \div 2)

\* The extents of such a sprite with the anchor (0.5, 0.5) were refreshed
\* from its vertices.
C22_Witness ==
    /\ slast.op = "_setExtents"
    /\ slast.pre.dirty
    /\ C22_Case(sprites[slast.id])
    /\ sprites[slast.id].ax = 1
    /\ sprites[slast.id].ay = 1

(***************************************************************************)
(* Sprites with an edge definition of their own                            *)
(***************************************************************************)

\* Sprite.__init__(asset, pos, edgedef) up to its call of _setExtents: the
\* base vertices are those of the edge definition.
spriteBeforeExtents(asset, pos, edgedef) ==
    LET sp0 == [asset |-> asset, edgedef |-> edgedef,
                basevertices |-> createBaseVertices(edgedef),
                x |-> 0, y |-> 0, ax |-> 0, ay |-> 0, sx |-> 1, sy |-> 1,
                rot |-> 0, xmin |-> 0, xmax |-> 0, ymin |-> 0, ymax |-> 0,
                dirty |-> FALSE]
    IN  [setPosition(sp0, pos) EXCEPT !.dirty = TRUE]

\* _setExtents raises ValueError: for an asset that is no CircleAsset it
\* unpacks x, y = zip(*self._absolutevertices), and an empty vertex list
\* gives nothing to unpack.
setExtentsRaises(sp) ==
    /\ sp.dirty
    /\ sp.asset.kind # "CircleAsset"
    /\ sp.basevertices = <<>>

\* Sprite(asset, pos, edgedef) of class Sprite: when _setExtents raises the
\* constructor ends there, before App._add(self).
NewEdgeSprite(C) ==
    \E c \in C :
        LET i == Len(sprites) + 1
            sp == spriteBeforeExtents(c[1], c[2], c[3])
            r == appAdd(Registry(spritelist, spritesdict, FALSE), i,
                        SpriteClass)
        IN  /\ Len(sprites) < MaxSprites
            /\ IF setExtentsRaises(sp)
               THEN /\ rlast' = RegistryOp("Sprite", 0, SpriteClass, TRUE,
                                           <<c[1], c[3]>>)
                    /\ UNCHANGED <<scene, fvars, avars, sprites, spriteclass, spritelist,
                                   spritesdict>>
               ELSE /\ sprites' = Append(sprites, setExtents(sp))
                    /\ spriteclass' = Append(spriteclass, SpriteClass)
                    /\ spritelist' = r.spritelist
                    /\ spritesdict' = r.spritesdict
                    /\ rlast' = RegistryOp("Sprite", i, SpriteClass, FALSE,
                                           <<c[1], c[3]>>)
                    /\ scene' = sceneAdd(win, scene, i)
            /\ UNCHANGED <<fvars, avars, evars, slast, win, spritesadded, platform,
                           destroyed, stale>>

\* Rectangles and circles as asset and as edge definition, on a place where
\* the sprites lie on each other and on a place apart.
EdgeConstructions ==
    {<<a, p, e>> : a \in Assets, p \in {<<0, 0>>, <<20, 0>>}, e \in Assets}

NextEdge ==
    \/ NewEdgeSprite(EdgeConstructions)
    \/ CollidingWith

SpecEdge == InitRegistry /\ [][NextEdge]_vars

\* The box of the vertices _xformVertices gives.
VertexExtents(sp) ==
    LET v == xformVertices(sp)
        xs == {v[i][1] : i \in 1..Len(v)}
        ys == {v[i][2] : i \in 1..Len(v)}
    IN  [xmin |-> SetMin(xs), xmax |-> SetMax(xs),
         ymin |-> SetMin(ys), ymax |-> SetMax(ys)]

\* C23 as claimed: collidingWith runs the distance test of two circles
\* exactly when both edge definitions are CircleAssets, and the extents of
\* a sprite whose edge definition has vertices are the box of its vertices.
C23_Claim ==
    /\ (IsCollidingWith /\ slast.narrow # "none") =>
          (slast.narrow = "distance"
           <=> /\ sprites[slast.id].edgedef.kind = "CircleAsset"
               /\ sprites[slast.obj].edgedef.kind = "CircleAsset")
    /\ \A i \in DOMAIN sprites :
          (~sprites[i].dirty /\ sprites[i].edgedef.kind # "CircleAsset") =>
              Cached(sprites[i]) = VertexExtents(sprites[i])

\* C24 as claimed: Sprite(asset, pos, edgedef) with an asset that is no
\* CircleAsset and a CircleAsset as edge definition does not raise, and the
\* sprite is registered with _extentsdirty False.
C24_Claim ==
    (/\ rlast.op = "Sprite"
     /\ Len(rlast.result) = 2
     /\ rlast.result[1].kind # "CircleAsset"
     /\ rlast.result[2].kind = "CircleAsset") =>
        /\ ~rlast.raised
        /\ rlast.id \in Elems(spritelist)
        /\ ~sprites[rlast.id].dirty

(***************************************************************************)
(* The images of a sprite (firstImage .. setImage, Sprite.index)           *)
(***************************************************************************)

\* Largest index, in magnitude, handed to setImage and to the index setter.
MaxIndex == 4

Indexes == (0 - MaxIndex)..MaxIndex

\* ImageAsset(url, Frame(0, 0, w, h), qty): qty images of w by h.
ImageAsset(w, h, qty) ==
    [kind |-> "ImageAsset", width |-> w, height |-> h, qty |-> qty]

ImageAssets == {ImageAsset(8, 4, 1), ImageAsset(8, 4, 3)}

\* len(asset): the length of GFXlist.
assetLen(asset) == IF asset.kind = "ImageAsset" THEN asset.qty ELSE 1

\* asset[key]: GFXlist[key] with the list's negative indexes; the number
\* of the image (0 is the first), or IndexError (no image has that number).
IndexError == 0 - 1

getitem(asset, key) ==
    LET n == assetLen(asset)
    IN  IF 0 <= key /\ key < n THEN key
        ELSE IF 0 - n <= key /\ key < 0 THEN n + key
        ELSE IndexError

\* Sprite.firstImage / Sprite.lastImage: the texture is assigned, _index is
\* not.
firstImage(sp) == [sp EXCEPT !.texture = getitem(sp.asset, 0)]

lastImage(sp) == [sp EXCEPT !.texture = getitem(sp.asset, -1)]

\* Sprite.nextImage(wrap) / Sprite.prevImage(wrap)
nextImage(sp, wrap) ==
    LET i1 == sp.index + 1
        i2 == IF i1 >= assetLen(sp.asset)
              THEN IF wrap THEN 0 ELSE assetLen(sp.asset) - 1
              ELSE i1
    IN  [sp EXCEPT !.index = i2, !.texture = getitem(sp.asset, i2)]

prevImage(sp, wrap) ==
    LET i1 == sp.index - 1
        i2 == IF i1 < 0
              THEN IF wrap THEN assetLen(sp.asset) - 1 ELSE 0
              ELSE i1
    IN  [sp EXCEPT !.index = i2, !.texture = getitem(sp.asset, i2)]

\* Sprite.index setter: the value is kept when asset[value] is an image,
\* and is 0 after the except clause.
setIndex(sp, value) ==
    IF getitem(sp.asset, value) # IndexError
    THEN [sp EXCEPT !.index = value, !.texture = getitem(sp.asset, value)]
    ELSE [sp EXCEPT !.index = 0, !.texture = getitem(sp.asset, 0)]

\* Sprite.setImage(index): self.index = index
setImage(sp, index) == setIndex(sp, index)

FirstImage == \E i \in DOMAIN sprites :
                  SpriteOp("firstImage", i, firstImage(sprites[i]))

LastImage == \E i \in DOMAIN sprites :
                 SpriteOp("lastImage", i, lastImage(sprites[i]))

NextImage == \E i \in DOMAIN sprites, wrap \in BOOLEAN :
                 SpriteOp(IF wrap THEN "nextImage(True)" ELSE "nextImage", i,
                          nextImage(sprites[i], wrap))

PrevImage == \E i \in DOMAIN sprites, wrap \in BOOLEAN :
                 SpriteOp(IF wrap THEN "prevImage(True)" ELSE "prevImage", i,
                          prevImage(sprites[i], wrap))

SetImage == \E i \in DOMAIN sprites, v \in Indexes :
                SpriteOp("setImage", i, setImage(sprites[i], v))

SetIndex == \E i \in DOMAIN sprites, v \in Indexes :
                SpriteOp("index", i, setIndex(sprites[i], v))

\* One sprite of an ImageAsset: Sprite.__init__ sets _index = 0 and makes
\* the display handle from the first image.
InitImages ==
    /\ eventdict = <<>>
    /\ last = NoOp
    /\ subs = {}
    /\ cancelled = {}
    /\ \E a \in ImageAssets :
          sprites = <<newSprite(a, <<0, 0>>) @@ [index |-> 0, texture |-> 0]>>
    /\ slast = NoSpriteOp
    /\ Registered(1)

NextImages ==
    \/ FirstImage
    \/ LastImage
    \/ NextImage
    \/ PrevImage
    \/ SetImage
    \/ SetIndex

SpecImages == InitImages /\ [][NextImages]_vars

\* C25 as claimed: whatever nextImage, prevImage, setImage and index
\* assignments were made, none raised (the display handle shows an image)
\* and 0 <= index < n for the n images of the asset.
C25_Claim ==
    \A i \in DOMAIN sprites :
        /\ sprites[i].texture # IndexError
        /\ 0 <= sprites[i].index
        /\ sprites[i].index < assetLen(sprites[i].asset)

\* C26 as claimed: nextImage() on a sprite that displays the last image
\* leaves the displayed image as it is, and so does prevImage() on a sprite
\* that displays the first image.
C26_Claim ==
    /\ (/\ slast.op = "nextImage"
        /\ slast.pre.texture = assetLen(slast.pre.asset) - 1) =>
          sprites[slast.id].texture = slast.pre.texture
    /\ (slast.op = "prevImage" /\ slast.pre.texture = 0) =>
          sprites[slast.id].texture = slast.pre.texture

(***************************************************************************)
(* The application and its clock (App.__init__, App.run, App._animate)     *)
(***************************************************************************)

\* Most arguments handed to App(...).
MaxArgs == 3

\* Most frames requested and not yet delivered.
MaxFrames == 2

ArgCounts == 0..MaxArgs

Userfuncs == {NoUserfunc} \cup Callbacks

NewSizedApp == \E nargs \in ArgCounts : appInit(nargs)

\* app.run(userfunc): the function is kept and the first frame is requested
\* of the window.
Run ==
    \E uf \in Userfuncs :
        /\ win
        /\ frames < MaxFrames
        /\ userfunc' = uf
        /\ frames' = frames + 1
        /\ rlast' = RegistryOp("run", 0, NoClass, FALSE, <<>>)
        /\ UNCHANGED <<scene, fvars, evars, svars, tick, windows, bindings, spritelist,
                       spritesdict, win, spritesadded, platform, spriteclass,
                       destroyed, stale>>

\* The clock of the window delivers a requested frame: App._animate calls
\* userfunc if there is one and step otherwise, and requests the next frame.
Tick ==
    /\ win
    /\ frames > 0
    /\ tick' = [op |-> "_animate",
                steps |-> IF userfunc # NoUserfunc THEN 0 ELSE 1,
                userfuncs |-> IF userfunc # NoUserfunc THEN 1 ELSE 0,
                requested |-> 1]
    /\ frames' = (frames - 1) + 1
    /\ UNCHANGED <<scene, fvars, evars, svars, rvars, userfunc, windows, bindings>>

NextApp ==
    \/ NewSprite(ResetConstructions)
    \/ NewSizedApp
    \/ Run
    \/ Tick
    \/ AppDestroy

SpecApp == InitRegistry /\ [][NextApp]_vars

\* C27 as claimed: every animation tick after run() calls step() once,
\* whether or not a userfunc was handed to run, and requests one further
\* frame.
C27_Claim ==
    tick.op = "_animate" => tick.steps = 1 /\ tick.requested = 1

\* C28 as claimed: there is never more than one window; App(...) with a
\* window makes no window and binds nothing; App() and App(w, h) after a
\* reset, or without a window, make one window with the nine event types
\* bound on it.
C28_Claim ==
    [][/\ windows' <= 1
       /\ rlast'.op \in {AppOp(n) : n \in ArgCounts} /\ rlast' # rlast =>
            /\ win => windows' = windows /\ bindings' = bindings
            /\ (/\ rlast'.op \in {AppOp(0), AppOp(2)}
                /\ rlast'.afterdestroy \/ ~win) =>
                  /\ windows' = windows + 1
                  /\ windows' = 1
                  /\ bindings' = WindowEvents]_vars

(***************************************************************************)
(* Frame (x, y, w, h and the center property)                              *)
(***************************************************************************)

FrameCorners == {-3, 0, 4}

FrameSizes == {0, 5, 8}

FrameCenters == {-5, 0, 7}

\* Frame.center getter: (x + w//2, y + h//2)
frameCenter(f) == <<f.x + (f.w \div 2), f.y + (f.h \div 2)>>

\* The setter with the value taken for the corner.
setFrameCenterAsCorner(f, value) ==
    [f EXCEPT !.x = value[1], !.y = value[2]]

\* Frame.center setter: x and y move by the difference between the value
\* and the center there was.
setFrameCenter(f, value) ==
    LET c == frameCenter(f)
    IN  [f EXCEPT !.x = f.x + (value[1] - c[1]),
                  !.y = f.y + (value[2] - c[2])]

FrameOp(opname, value, f) ==
    /\ frame' = f
    /\ flast' = [op |-> opname, value |-> value, pre |-> frame]
    /\ UNCHANGED <<scene, evars, svars, rvars, avars>>

FrameSetCenter ==
    \E value \in FrameCenters \X FrameCenters :
        FrameOp("center", value, setFrameCenter(frame, value))

\* Frame.w and Frame.h setters
FrameSetW == \E v \in FrameSizes : FrameOp("w", v, [frame EXCEPT !.w = v])

FrameSetH == \E v \in FrameSizes : FrameOp("h", v, [frame EXCEPT !.h = v])

InitFrames ==
    /\ eventdict = <<>>
    /\ last = NoOp
    /\ subs = {}
    /\ cancelled = {}
    /\ sprites = <<>>
    /\ slast = NoSpriteOp
    /\ spritelist = <<>>
    /\ spritesdict = <<>>
    /\ win = FALSE
    /\ spritesadded = FALSE
    /\ platform = "browser"
    /\ spriteclass = <<>>
    /\ destroyed = {}
    /\ stale = {}
    /\ rlast = NoRegistryOp
    /\ userfunc = NoUserfunc
    /\ frames = 0
    /\ tick = NoTick
    /\ windows = 0
    /\ bindings = <<>>
    /\ scene = <<>>
    /\ \E x \in FrameCorners, y \in FrameCorners, w \in FrameSizes :
          frame = Frame(x, y, w, 8)
    /\ flast = NoFrameOp

NextFrames ==
    \/ FrameSetCenter
    \/ FrameSetW
    \/ FrameSetH

SpecFrames == InitFrames /\ [][NextFrames]_vars

\* C29: after center = v on a frame of integers, center reads v, w and h
\* are what they were, and x and y have moved by what the center moved.
C29_Theorem ==
    flast.op = "center" =>
        /\ frameCenter(frame) = flast.value
        /\ frame.w = flast.pre.w
        /\ frame.h = flast.pre.h
        /\ frame.x - flast.pre.x = flast.value[1] - frameCenter(flast.pre)[1]
        /\ frame.y - flast.pre.y = flast.value[2] - frameCenter(flast.pre)[2]

\* C29: a frame of odd width whose center was moved to another place.
C29_Witness ==
    /\ flast.op = "center"
    /\ flast.pre.w % 2 = 1
    /\ flast.value # frameCenter(flast.pre)
    /\ frame.x # flast.pre.x
    /\ frame.y # flast.pre.y

(***************************************************************************)
(* Callbacks that listen and unlisten while an event is routed             *)
(***************************************************************************)

\* The callbacks of a program whose callbacks change the subscriptions.
Handlers == Callbacks \cup {"h"}

\* What the body of a callback does when it is called: nothing, or
\* App.unlistenMouseEvent(type, c), or App.listenMouseEvent(type, c), for
\* the type of the event it is called on.
Bodies ==
    {<<"pass">>} \cup {<<op, c>> : op \in {"unlisten", "listen"}, c \in Handlers}

bodyRaises(evtlist, body) ==
    body[1] = "unlisten" /\ body[2] \notin Elems(evtlist)

\* The list object of the table after the body has run.
bodyList(evtlist, body) ==
    IF body[1] = "unlisten" THEN Remove(evtlist, body[2])
    ELSE IF body[1] = "listen" THEN listenList(evtlist, body[2])
    ELSE evtlist

\* for callback in reversed(evtlist): callback(event), evtlist being the
\* list object of the table, which the callbacks change.  i is the index of
\* the reverse iterator: it yields evtlist[i] while i is an index of the
\* list as it is now and counts down; an exception of a callback ends the
\* loop.
RECURSIVE RouteLoopLive(_, _, _, _)
RouteLoopLive(evtlist, i, invoked, bodies) ==
    IF i < 1 \/ i > Len(evtlist)
    THEN [evtlist |-> evtlist, invoked |-> invoked, raised |-> FALSE]
    ELSE LET c == evtlist[i]
         IN  IF bodyRaises(evtlist, bodies[c])
             THEN [evtlist |-> evtlist, invoked |-> Append(invoked, c),
                   raised |-> TRUE]
             ELSE RouteLoopLive(bodyList(evtlist, bodies[c]), i - 1,
                                Append(invoked, c), bodies)

\* App._mouseEvent on an event of type t, the callbacks having the bodies
\* given.
mouseEventLive(t, bodies) ==
    LET k == MouseKey(t)
        evtlist == Get(eventdict, k)
        r == RouteLoopLive(evtlist, Len(evtlist), <<>>, bodies)
    IN  /\ eventdict' = IF k \in DOMAIN eventdict
                        THEN [eventdict EXCEPT ![k] = r.evtlist]
                        ELSE eventdict
        /\ last' = [op |-> "mouseEvent", key |-> k, cb |-> "", code |-> 0,
                    pre |-> eventdict, evtlist |-> evtlist, cons |-> {},
                    invoked |-> r.invoked, consumed |-> FALSE,
                    raised |-> r.raised]
        /\ subs' = {s \in subs : s[1] # k} \cup
                   {<<k, c>> : c \in Elems(r.evtlist)}
        /\ cancelled' = cancelled \ Elems(r.evtlist)
        /\ UNCHANGED <<scene, svars, rvars, avars, fvars>>

MouseEvtLive ==
    \E t \in MouseTypes, bodies \in [Handlers -> Bodies] :
        mouseEventLive(t, bodies)

NextLive ==
    \/ ListenMouse
    \/ UnlistenMouse
    \/ MouseEvtLive

SpecLive == InitEvents /\ [][NextLive]_vars

\* C30 as claimed: while one event is routed, no callback that was in the
\* list when the routing began is called more than once, whatever the
\* callbacks listen and unlisten meanwhile.
C30_Claim ==
    last.op = "mouseEvent" =>
        \A c \in Elems(last.evtlist) :
            Cardinality({i \in 1..Len(last.invoked) : last.invoked[i] = c}) <= 1

(***************************************************************************)
(* collidingWith: boxes, dirty flags, symmetry                             *)
(***************************************************************************)

\* The boxes of two sprites overlap, boxes that share an edge or a corner
\* included.
BoxesOverlap(a, b) ==
    /\ a.xmin <= b.xmax
    /\ b.xmin <= a.xmax
    /\ a.ymin <= b.ymax
    /\ b.ymin <= a.ymax

NotBothCircles(a, b) ==
    a.asset.kind # "CircleAsset" \/ b.asset.kind # "CircleAsset"

\* C31: for two distinct sprites that are not both circles collidingWith
\* returns True exactly when their extents, as the call refreshed them,
\* overlap or touch.
C31_Theorem ==
    (/\ IsCollidingWith
     /\ slast.id # slast.obj
     /\ NotBothCircles(sprites[slast.id], sprites[slast.obj])) =>
        (slast.result <=> BoxesOverlap(sprites[slast.id], sprites[slast.obj]))

\* A rectangle and a circle whose boxes share an edge and nothing more,
\* found colliding by the circle-with-polygon test.
C31_Witness ==
    /\ IsCollidingWith
    /\ slast.id # slast.obj
    /\ sprites[slast.id].asset.kind = "RectangleAsset"
    /\ sprites[slast.obj].asset.kind = "CircleAsset"
    /\ sprites[slast.id].xmax = sprites[slast.obj].xmin
    /\ slast.result = TRUE
    /\ slast.narrow = "collidingCircleWithPoly"

\* C32: after collidingWith on two distinct sprites neither has dirty
\* extents, whatever was returned; collidingWith of a sprite with itself
\* leaves the sprite, its extents and its dirty flag as they were.
C32_Theorem ==
    IsCollidingWith =>
        /\ slast.id # slast.obj =>
              /\ ~sprites[slast.id].dirty
              /\ ~sprites[slast.obj].dirty
        /\ slast.id = slast.obj => sprites[slast.id] = slast.pre

\* A sprite with dirty extents asked about another sprite, the answer
\* being False.
C32_Witness ==
    /\ IsCollidingWith
    /\ slast.id # slast.obj
    /\ slast.pre.dirty
    /\ slast.pre.sx = 2
    /\ slast.result = FALSE
    /\ ~sprites[slast.id].dirty
    /\ sprites[slast.obj].sx = 2

(***************************************************************************)
(* Lazy recomputation of the extents                                       *)
(***************************************************************************)

\* C33: _setExtents on a sprite whose _extentsdirty is False changes
\* nothing of the sprite (no extent, no vertex list), and a second
\* _setExtents after any _setExtents changes nothing.
C33_Theorem ==
    /\ (slast.op = "_setExtents" /\ ~slast.pre.dirty) =>
          sprites[slast.id] = slast.pre
    /\ slast.op = "_setExtents" =>
          setExtents(sprites[slast.id]) = sprites[slast.id]
    /\ \A i \in DOMAIN sprites :
          setExtents(setExtents(sprites[i])) = setExtents(sprites[i])

\* _setExtents on a sprite whose flag is False though a recomputation
\* would give other extents than the cached ones.
C33_Witness ==
    /\ slast.op = "_setExtents"
    /\ ~slast.pre.dirty
    /\ Cached(slast.pre) # computeExtents(slast.pre)
    /\ sprites[slast.id] = slast.pre

(***************************************************************************)
(* The display objects of the window                                       *)
(***************************************************************************)

\* C34: whenever there is a window, the display objects added to it and
\* not removed are those of the registered sprites, each of them once,
\* whether the sprites were constructed before or after the App and
\* whatever sprites were destroyed and resets made in between.
C34_Theorem ==
    win =>
        /\ Elems(scene) = Elems(spritelist)
        /\ Len(scene) = Cardinality(Elems(scene))

\* A window that was handed the sprites that existed when it was made, to
\* which a sprite was added later, and from which a sprite was removed.
C34_Witness ==
    /\ win
    /\ spritesadded
    /\ rlast.op = "Sprite"
    /\ destroyed # {}
    /\ rlast.id \in Elems(scene)
    /\ Len(scene) > 1

(***************************************************************************)
(* Symmetry of collidingWith                                               *)
(***************************************************************************)

\* C35: for any two sprites, in any state, a.collidingWith(b) and
\* b.collidingWith(a) return the same value, asked of the same state or
\* one after the other.
C35_Theorem ==
    \A i \in DOMAIN sprites, j \in DOMAIN sprites :
        LET r == collidingWith(sprites, i, j)
        IN  /\ r.result = collidingWith(sprites, j, i).result
            /\ r.result = collidingWith(r.sprites, j, i).result

\* A circle with dirty extents found colliding with a rectangle that lies
\* on another place: the rectangle finds the circle colliding, too.
C35_Witness ==
    /\ IsCollidingWith
    /\ slast.id # slast.obj
    /\ slast.pre.dirty
    /\ slast.pre.asset.kind = "CircleAsset"
    /\ sprites[slast.obj].asset.kind = "RectangleAsset"
    /\ sprites[slast.obj].x # sprites[slast.id].x
    /\ slast.result = TRUE
    /\ collidingWith(sprites, slast.obj, slast.id).result = TRUE

(***************************************************************************)
(* The keyboard channel and the pointer channel                            *)
(***************************************************************************)

\* The callbacks a program hands to listenMouseEvent: g, which it hands to
\* listenKeyEvent as well, and h, which it hands to listenMouseEvent only;
\* f of Callbacks is handed to listenKeyEvent only.
PointerCallbacks == Handlers \ {"f"}

ListenPointer ==
    \E t \in MouseTypes, c \in PointerCallbacks : listenMouseEvent(t, c)

UnlistenPointer ==
    \E t \in MouseTypes, c \in PointerCallbacks : unlistenMouseEvent(t, c)

PointerEvt ==
    \E t \in MouseTypes, cons \in SUBSET PointerCallbacks : mouseEvent(t, cons)

NextChannels ==
    \/ ListenKey
    \/ ListenPointer
    \/ UnlistenKey
    \/ UnlistenPointer
    \/ KeyEvt
    \/ PointerEvt

SpecChannels == InitEvents /\ [][NextChannels]_vars

\* The lists of the keyboard channel (keys <<type, name>>) and of the
\* pointer channel (keys <<type>>) in a table.
KeyLists(d) == [k \in {x \in DOMAIN d : Len(x) = 2} |-> d[k]]

PointerLists(d) == [k \in {x \in DOMAIN d : Len(x) = 1} |-> d[k]]

Listed(lists) == UNION {Elems(lists[k]) : k \in DOMAIN lists}

\* C36: a key event invokes no callback that was subscribed through
\* listenMouseEvent only (none but callbacks of the keyboard lists) and
\* changes no pointer list; a pointer event invokes no callback that was
\* subscribed through listenKeyEvent only (none but callbacks of the
\* pointer lists) and changes no keyboard list.
C36_Theorem ==
    /\ IsKeyEvent =>
          /\ "h" \notin Elems(last.invoked)
          /\ Elems(last.invoked) \subseteq Listed(KeyLists(last.pre))
          /\ PointerLists(eventdict) = PointerLists(last.pre)
    /\ IsMouseEvent =>
          /\ "f" \notin Elems(last.invoked)
          /\ Elems(last.invoked) \subseteq Listed(PointerLists(last.pre))
          /\ KeyLists(eventdict) = KeyLists(last.pre)

\* A key event that invoked g, subscribed on both channels, and changed a
\* keyboard list, while the pointer list held g and h.
C36_Witness ==
    /\ IsKeyEvent
    /\ "g" \in Elems(last.invoked)
    /\ eventdict # last.pre
    /\ {"g", "h"} \subseteq Listed(PointerLists(eventdict))
    /\ "h" \notin Listed(KeyLists(eventdict))

(***************************************************************************)
(* Iteration over an asset (_Asset.__iter__)                               *)
(***************************************************************************)

\* Iter.__init__: n = len(image.GFXlist), i = 0
Iter(asset) == [n |-> assetLen(asset), i |-> 0]

\* Iter.__next__: StopIteration when i == n; else i is incremented and
\* GFXlist[i] is returned, which raises IndexError when i is no index.
iterNext(asset, it) ==
    IF it.i = it.n
    THEN [it |-> it, outcome |-> "StopIteration", item |-> IndexError]
    ELSE LET i1 == it.i + 1
         IN  [it |-> [it EXCEPT !.i = i1],
              outcome |-> IF getitem(asset, i1) = IndexError
                          THEN "IndexError"
                          ELSE "item",
              item |-> getitem(asset, i1)]

\* for gfx in asset: the images yielded until __next__ raises, and whether
\* what it raised was another exception than StopIteration.
RECURSIVE forLoop(_, _, _)
forLoop(asset, it, yielded) ==
    LET r == iterNext(asset, it)
    IN  IF r.outcome = "item"
        THEN forLoop(asset, r.it, Append(yielded, r.item))
        ELSE [yielded |-> yielded, raised |-> r.outcome # "StopIteration"]

IterAsset ==
    \E i \in DOMAIN sprites :
        LET r == forLoop(sprites[i].asset, Iter(sprites[i].asset), <<>>)
        IN  /\ slast' = [op |-> "iter", id |-> i, pre |-> sprites[i],
                         yielded |-> r.yielded, raised |-> r.raised]
            /\ UNCHANGED <<sprites, evars, rvars, avars, fvars, scene>>

NextIter ==
    \/ FirstImage
    \/ LastImage
    \/ NextImage
    \/ PrevImage
    \/ SetIndex
    \/ IterAsset

SpecIter == InitImages /\ [][NextIter]_vars

\* C37 as claimed: iterating over an asset of n images ends without an
\* error after yielding the images 0 .. n-1, each once, in that order.
C37_Claim ==
    slast.op = "iter" =>
        /\ ~slast.raised
        /\ slast.yielded = [k \in 1..assetLen(slast.pre.asset) |-> k - 1]

====
